---------------------------- MODULE Spec2Model ----------------------------
(***************************************************************************)
(* A model of the offline MP4 compressor: the useFFmpeg hook (engine       *)
(* lifecycle), the VideoCompressor component (workflow, compression runs,  *)
(* progress projection) and the two pure routines it uses (the bitrate     *)
(* planner inside startCompression and isHighlyCompressed).                *)
(*                                                                         *)
(* Units.  File sizes are counted in units of 1000 bytes (sizeK),          *)
(* durations and processed times in tenths of a second (dd), the engine's  *)
(* progress fraction in thousandths (0..1000 for 0..1).  The source        *)
(* computes in IEEE-754 doubles; the operators below compute the same      *)
(* expressions in exact integer arithmetic.  The input grids of PlanSpec   *)
(* and HeurSpec are chosen so that on every grid point the double          *)
(* evaluation, in the source's order of operations, gives the same result  *)
(* as the exact one.                                                       *)
(*                                                                         *)
(* Left out: the elapsed-time display (elapsedTime and its 100 ms timer),  *)
(* the log event stream (logMessage) and the download handler, none of     *)
(* which feeds back into the workflow.                                     *)
(***************************************************************************)
EXTENDS Integers, Sequences, FiniteSets, TLC

(***************************************************************************)
(* Bounds of the model.                                                    *)
(***************************************************************************)
\* startCompression invocations in one behaviour
MaxRuns == 2
\* metadata probes pending at the same time
MaxProbes == 1
\* load() invocations that start an acquisition in one behaviour
MaxLoads == 2
\* attempts of one loadFFmpeg call whose timer has fired and that are still
\* running at the same time
MaxAbandoned == 1
\* getVideoMetadata calls in one behaviour of ProbeSpec
MaxElements == 2
\* metadata probes pending at the same time in SelectSpec
MaxSelections == 2
\* events and timer firings on one video element in ProbeSpec
MaxEvents == 3

\* the ratio slider's max (its min is 1)
MaxRatio == 100

(***************************************************************************)
(* Optional values (null | value) as sequences of length 0 or 1.           *)
(***************************************************************************)
NULL == <<>>
Some(x) == <<x>>
Val(o) == o[1]

Max(a, b) == IF a >= b THEN a ELSE b
Min(a, b) == IF a <= b THEN a ELSE b

VARIABLES
  \* ---- useFFmpeg hook ----
  env,                  \* browser capabilities: [sab, coi]
  loadState,            \* [status |-> "idle" | "loading" | "ready" | "error"]
  ffmpegRef,            \* NULL or Some(engine instance number)
  instances,            \* number of engine instances constructed (new FFmpeg())
  terminated,           \* the instances on which terminate() was called
  loads,                \* the load() invocations that called loadFFmpeg, in order:
                        \* [ffmpeg, attempt, stage, failures, abandoned, pc]
  renderedStatus,       \* loadState.status as of the last committed render: the
                        \* value the load callback of that render has captured
  progress,             \* NULL or Some([progress, time]): the retained event
  environmentCheck,     \* NULL or Some(result of checkFFmpegEnvironment)
  \* ---- VideoCompressor component ----
  status,               \* "idle" | "ready" | "compressing" | "success" | "error"
  video,                \* NULL or Some([file, meta])
  ratio,
  result,               \* NULL or Some([blobUrl, outputName])
  errorMsg,
  previewMode,
  exportName,
  compressionSessionId, \* NULL or Some(token)
  startTimeRef,
  \* ---- asynchronous activities ----
  runs,                 \* the startCompression invocations, in start order
  probes,               \* the getVideoMetadata calls: the video element with its
                        \* timer and handlers, and the promise
  \* ---- observation ----
  progressOrigin,       \* the run whose engine job emitted the retained event (0: none)
  heur,                 \* last evaluation of isHighlyCompressed: NULL or Some([in, out])
  \* ---- browser ----
  objectUrls            \* result object URLs created and not revoked

engineVars == <<env, loadState, ffmpegRef, instances, terminated, loads,
                renderedStatus, environmentCheck>>
hookVars == <<engineVars, progress>>
compVars == <<status, video, ratio, result, errorMsg, previewMode, exportName,
              compressionSessionId, startTimeRef>>
asyncVars == <<runs, probes>>
vars == <<hookVars, compVars, asyncVars, progressOrigin, heur, objectUrls>>

(***************************************************************************)
(* lib/ffmpeg.ts                                                           *)
(***************************************************************************)
\* the acquisition attempts of loadFFmpeg, in the order it makes them
LoadSources == <<"mt-jsdelivr", "mt-unpkg", "st-jsdelivr", "st-unpkg">>

isSharedArrayBufferSupported == env.sab
isCrossOriginIsolated == env.coi

\* checkFFmpegEnvironment reporting every environment as supported (a faulty
\* variant)
checkFFmpegEnvironmentLax ==
  [sharedArrayBuffer |-> isSharedArrayBufferSupported,
   crossOriginIsolated |-> isCrossOriginIsolated,
   supported |-> TRUE,
   message |-> "env-ok"]

checkFFmpegEnvironment ==
  LET sharedArrayBuffer == isSharedArrayBufferSupported
      crossOrigin == isCrossOriginIsolated
      supported == sharedArrayBuffer /\ crossOrigin
  IN [sharedArrayBuffer |-> sharedArrayBuffer,
      crossOriginIsolated |-> crossOrigin,
      supported |-> supported,
      message |-> IF supported THEN "env-ok"
                  ELSE IF ~crossOrigin THEN "no-cross-origin-isolation"
                  ELSE "no-shared-array-buffer"]

(***************************************************************************)
(* hooks/useFFmpeg                                                         *)
(***************************************************************************)
isLoaded == loadState.status = "ready"
isLoading == loadState.status = "loading"
\* the hook returns ffmpegRef.current
ffmpeg == ffmpegRef

\* initFFmpegInstance: the instance already held, or a new one
initFFmpegInstance == IF ffmpegRef # NULL THEN ffmpegRef ELSE Some(instances + 1)

\* clearProgress (and the observation of which job the retained event is from)
clearProgress == progress' = NULL /\ progressOrigin' = 0

\* the message withTimeout rejects with when its timer fires
TimeoutMessage == "load-timeout-30s"

\* the messages an acquisition attempt fails with: the withTimeout message,
\* or the error thrown by toBlobURL / ffmpeg.load
FailureMessages == {TimeoutMessage, "fetch-failed"}

\* the steps of tryLoadMultiThread / tryLoadSingleThread: the toBlobURL
\* fetches, then ffmpeg.load on the instance
AttemptStages == {"fetch", "init"}

\* canUseMultiThread computed with "or" for "and" (a faulty variant)
firstAttemptEitherCapability ==
  IF isSharedArrayBufferSupported \/ isCrossOriginIsolated THEN 1 ELSE 3

\* the first attempt loadFFmpeg makes: the two multi-thread attempts are made
\* only if canUseMultiThread
firstAttempt ==
  IF isSharedArrayBufferSupported /\ isCrossOriginIsolated THEN 1 ELSE 3

\* the Error loadFFmpeg throws after its last attempt, as the parts of its
\* message: a fixed text
loadFFmpegError(failures) == <<"ffmpeg-init-failed", "check-network-or-browser">>

\* load(), called through the callback of the last committed render: the
\* environment check, the two skips on the captured status, then
\* initFFmpegInstance and the call of loadFFmpeg with its first attempt
Load ==
  /\ environmentCheck' = Some(checkFFmpegEnvironment)
  /\ IF ~checkFFmpegEnvironment.supported
       THEN /\ loadState' = [status |-> "error",
                             error |-> <<checkFFmpegEnvironment.message>>]
            /\ UNCHANGED <<ffmpegRef, instances, loads>>
       ELSE IF renderedStatus \in {"ready", "loading"}
         THEN UNCHANGED <<loadState, ffmpegRef, instances, loads>>
         ELSE /\ Len(loads) < MaxLoads
              /\ loadState' = [status |-> "loading"]
              /\ ffmpegRef' = initFFmpegInstance
              /\ instances' = IF ffmpegRef # NULL THEN instances ELSE instances + 1
              /\ loads' = Append(loads, [ffmpeg |-> Val(initFFmpegInstance),
                                         attempt |-> firstAttempt,
                                         stage |-> "fetch",
                                         failures |-> <<>>, abandoned |-> <<>>,
                                         pc |-> "pending"])
  /\ UNCHANGED <<env, terminated, renderedStatus, progress, compVars, asyncVars,
                 progressOrigin, heur, objectUrls>>

\* The auto-load effect of a render that committed the status idle calls load().
AutoLoad ==
  /\ renderedStatus = "idle"
  /\ loadState.status = "idle"
  /\ Load

\* React commits a render of the current load state
Render ==
  /\ renderedStatus # loadState.status
  /\ renderedStatus' = loadState.status
  /\ UNCHANGED <<env, loadState, ffmpegRef, instances, terminated, loads,
                 environmentCheck, progress, compVars, asyncVars, progressOrigin,
                 heur, objectUrls>>

\* the attempt in progress of load() invocation i reports a step through
\* onProgress (load() passes the message to setLoadState) and goes on with a
\* fetch or, after the last message, with ffmpeg.load
AttemptReports(i) ==
  /\ i \in 1..Len(loads)
  /\ loads[i].pc = "pending"
  /\ loads[i].stage = "fetch"
  /\ \E s \in AttemptStages : loads' = [loads EXCEPT ![i].stage = s]
  /\ loadState' = [status |-> "loading"]
  /\ UNCHANGED <<env, ffmpegRef, instances, terminated, renderedStatus,
                 environmentCheck, progress, compVars, asyncVars, progressOrigin,
                 heur, objectUrls>>

\* the ffmpeg.load of the attempt in progress of load() invocation i resolves:
\* loadFFmpeg returns and load() reports ready (the invocation's locals are
\* gone; the attempts withTimeout gave up on keep running)
AttemptSucceeds(i) ==
  /\ i \in 1..Len(loads)
  /\ loads[i].pc = "pending"
  /\ loads[i].stage = "init"
  /\ loads' = [loads EXCEPT ![i] = [ffmpeg |-> loads[i].ffmpeg, attempt |-> 0,
                                     stage |-> "", failures |-> <<>>,
                                     abandoned |-> loads[i].abandoned,
                                     pc |-> "resolved"]]
  /\ loadState' = [status |-> "ready"]
  /\ UNCHANGED <<env, ffmpegRef, instances, terminated, renderedStatus,
                 environmentCheck, progress, compVars, asyncVars, progressOrigin,
                 heur, objectUrls>>

\* withTimeout rejects the attempt in progress of load() invocation i with
\* message m: the attempt threw, or the timer fired, and then the attempt
\* itself is not stopped.  The next source is tried (its onProgress message
\* sets the load state to loading), and after the last one loadFFmpeg throws
\* and load() reports error
AttemptFails(i, m) ==
  /\ i \in 1..Len(loads)
  /\ loads[i].pc = "pending"
  /\ m = TimeoutMessage => Len(loads[i].abandoned) < MaxAbandoned
  /\ LET failures == Append(loads[i].failures, m)
         abandoned == IF m = TimeoutMessage
                        THEN Append(loads[i].abandoned, loads[i].stage)
                        ELSE loads[i].abandoned
     IN  IF loads[i].attempt < Len(LoadSources)
           THEN /\ loads' = [loads EXCEPT ![i] = [@ EXCEPT !.attempt = @ + 1,
                                                           !.stage = "fetch",
                                                           !.failures = failures,
                                                           !.abandoned = abandoned]]
                /\ loadState' = [status |-> "loading"]
           ELSE /\ loads' = [loads EXCEPT ![i] = [@ EXCEPT !.pc = "rejected",
                                                           !.stage = "",
                                                           !.failures = failures,
                                                           !.abandoned = abandoned]]
                /\ loadState' = [status |-> "error",
                                 error |-> loadFFmpegError(failures)]
  /\ UNCHANGED <<env, ffmpegRef, instances, terminated, renderedStatus,
                 environmentCheck, progress, compVars, asyncVars, progressOrigin,
                 heur, objectUrls>>

\* an attempt of load() invocation i that withTimeout gave up on finishes a
\* fetch and reports its next step through the same onProgress callback
AbandonedReports(i, k) ==
  /\ i \in 1..Len(loads)
  /\ k \in 1..Len(loads[i].abandoned)
  /\ loads[i].abandoned[k] = "fetch"
  /\ \E s \in AttemptStages : loads' = [loads EXCEPT ![i].abandoned[k] = s]
  /\ loadState' = [status |-> "loading"]
  /\ UNCHANGED <<env, ffmpegRef, instances, terminated, renderedStatus,
                 environmentCheck, progress, compVars, asyncVars, progressOrigin,
                 heur, objectUrls>>

\* an attempt that withTimeout gave up on ends (a fetch throws, or its
\* ffmpeg.load resolves or throws): withTimeout has settled already, so
\* nothing is reported
AbandonedSettles(i, k) ==
  /\ i \in 1..Len(loads)
  /\ k \in 1..Len(loads[i].abandoned)
  /\ loads' = [loads EXCEPT ![i].abandoned =
                  [n \in 1..(Len(@) - 1) |-> IF n < k THEN @[n] ELSE @[n + 1]]]
  /\ UNCHANGED <<env, loadState, ffmpegRef, instances, terminated,
                 renderedStatus, environmentCheck, progress, compVars, asyncVars,
                 progressOrigin, heur, objectUrls>>

\* reset(): terminate the instance held, drop it, and clear the hook's state
Reset ==
  /\ terminated' = IF ffmpegRef # NULL THEN terminated \cup {Val(ffmpegRef)}
                   ELSE terminated
  /\ ffmpegRef' = NULL
  /\ loadState' = [status |-> "idle"]
  /\ clearProgress
  /\ environmentCheck' = NULL
  /\ UNCHANGED <<env, instances, loads, renderedStatus, compVars, asyncVars,
                 heur, objectUrls>>

(***************************************************************************)
(* components/video-compressor.tsx: the pure routines                      *)
(***************************************************************************)
\* calculateBitrate, in kbps, as the fraction num/den:
\* (fileSize * 8) / (duration * 1000) with fileSize = 1000*sizeK, duration = dd/10
calculateBitrate(sizeK, dd) ==
  IF dd <= 0 THEN [num |-> 0, den |-> 1]
  ELSE [num |-> 80 * sizeK, den |-> dd]

\* isHighlyCompressed with the early return dropped (a faulty variant)
isHighlyCompressedUnguarded(sizeK, dd, width, height) ==
  LET bitrateKbps == calculateBitrate(sizeK, dd)
      pixels == width * height
  IN  bitrateKbps.num * 50 < 9 * (pixels \div 100) * bitrateKbps.den

\* isHighlyCompressed.  estimatedBPP = (bitrateKbps * 1000) / (pixels * 30) is
\* below HIGH_COMPRESSION_BPP_THRESHOLD = 0.06 exactly when
\*   bitrateKbps.num * 1000 * 100 < 6 * 30 * pixels * bitrateKbps.den,
\* which for pixels a multiple of 100 (every resolution used here) is the
\* comparison below, both sides divided by 2000.
isHighlyCompressed(sizeK, dd, width, height) ==
  IF dd <= 0 \/ width <= 0 \/ height <= 0 THEN FALSE
  ELSE LET bitrateKbps == calculateBitrate(sizeK, dd)
           pixels == width * height
       IN  bitrateKbps.num * 50 < 9 * (pixels \div 100) * bitrateKbps.den

\* videoBitrateKbps without the 10 % reserve (a faulty variant)
videoBitrateNoReserve(sizeK, dd, r) == (20 * sizeK * r) \div (25 * dd)

\* videoBitrateKbps = floor((targetTotalBitrateBps * 0.9) / 1000) with
\* targetTotalBitrateBps = (originalSize * 8 * (ratio / 100)) / duration,
\* i.e. floor(18 * sizeK * ratio / (25 * dd)), for a duration > 0
videoBitrateKbps(sizeK, dd, r) == (18 * sizeK * r) \div (25 * dd)

\* getMaxBitrate with the brackets' caps in the wrong order (a faulty variant)
getMaxBitrateSwapped(dd) ==
  IF dd <= 300 THEN 30000
  ELSE IF dd <= 1200 THEN 10000
  ELSE IF dd <= 3000 THEN 20000
  ELSE 5000

\* getMaxBitrate (thresholds 30 s, 120 s, 300 s in tenths of a second)
getMaxBitrate(dd) ==
  IF dd <= 300 THEN 30000
  ELSE IF dd <= 1200 THEN 20000
  ELSE IF dd <= 3000 THEN 10000
  ELSE 5000

\* finalBitrate = Math.max(100, Math.min(maxBitrate, videoBitrateKbps))
finalBitrate(sizeK, dd, r) ==
  Max(100, Min(getMaxBitrate(dd), videoBitrateKbps(sizeK, dd, r)))

\* the scale strategy with the first threshold compared inclusively (a faulty variant)
scaleFilterInclusive(r, width, height) ==
  LET maxDim == Max(width, height)
  IN  IF r <= 40 /\ maxDim > 1280
        THEN "scale='if(gt(iw,ih),1280,-2):if(gt(ih,iw),1280,-2)'"
      ELSE IF r < 60 /\ maxDim > 1920
        THEN "scale='if(gt(iw,ih),1920,-2):if(gt(ih,iw),1920,-2)'"
      ELSE ""

\* the scale strategy: the scaleFilter string ("" when no scaling)
scaleFilter(r, width, height) ==
  LET maxDim == Max(width, height)
  IN  IF r < 40 /\ maxDim > 1280
        THEN "scale='if(gt(iw,ih),1280,-2):if(gt(ih,iw),1280,-2)'"
      ELSE IF r < 60 /\ maxDim > 1920
        THEN "scale='if(gt(iw,ih),1920,-2):if(gt(ih,iw),1920,-2)'"
      ELSE ""

\* what the engine's scale filter makes of a scaleFilter string for an input
\* of iw x ih: the two if(gt(..),CAP,-2) expressions are evaluated, -2 asks
\* for the edge that keeps the aspect ratio, rounded to a multiple of 2, and
\* with both edges negative the input size is kept
scaleOutput(filter, iw, ih) ==
  IF filter = "" THEN [w |-> iw, h |-> ih]
  ELSE LET cap == IF filter = "scale='if(gt(iw,ih),1280,-2):if(gt(ih,iw),1280,-2)'"
                    THEN 1280 ELSE 1920
           w == IF iw > ih THEN cap ELSE -2
           h == IF ih > iw THEN cap ELSE -2
       IN  IF w < 0 /\ h < 0 THEN [w |-> iw, h |-> ih]
           ELSE IF w < 0 THEN [w |-> 2 * ((2 * h * iw + 2 * ih) \div (4 * ih)), h |-> h]
           ELSE [w |-> w, h |-> 2 * ((2 * w * ih + 2 * iw) \div (4 * iw))]

\* the max-rate argument computed from the wrong factor (a faulty variant)
maxRateArgWrong(b) == ToString((11 * b) \div 10) \o "k"

\* `${Math.floor(finalBitrate * 1.2)}k`; Math.floor(b * 1.2) in doubles equals
\* floor(6*b/5) for every b in 100..30000
maxRateArg(b) == ToString((6 * b) \div 5) \o "k"

\* the argument vector handed to ffmpeg.exec
buildArgs(b, filter) ==
  <<"-i", "input.mp4", "-c:v", "libx264",
    "-b:v", ToString(b) \o "k",
    "-bufsize", ToString(b * 2) \o "k",
    "-maxrate", maxRateArg(b),
    "-preset", "ultrafast", "-pix_fmt", "yuv420p", "-threads", "4",
    "-max_muxing_queue_size", "1024", "-c:a", "copy">>
  \o (IF filter # "" THEN <<"-vf", filter>> ELSE <<>>)
  \o <<"output.mp4">>

(***************************************************************************)
(* Files the user can pick, and what the engine can report.                *)
(***************************************************************************)
\* a 100,000,000-byte, 100-second 1080p video, a text file, and a 100-second
\* Matroska file without a video track that the browser gives no MIME type:
\* its probe reports videoWidth = videoHeight = 0
Clip == [base |-> "clip", ext |-> "mp4", mimeMajor |-> "video", readable |-> TRUE,
         sizeK |-> 100000, dd |-> 1000, width |-> 1920, height |-> 1080]
Notes == [base |-> "notes", ext |-> "txt", mimeMajor |-> "text", readable |-> FALSE,
          sizeK |-> 37, dd |-> 0, width |-> 0, height |-> 0]
Voice == [base |-> "voice", ext |-> "MKV", mimeMajor |-> "", readable |-> TRUE,
          sizeK |-> 5000, dd |-> 1000, width |-> 0, height |-> 0]
Files == {Clip, Notes, Voice}

\* slider positions the user moves to in Spec (two of the preset buttons)
RatioChoices == {30, 70}

\* progress events {progress, time} an engine job emits
Events == {[progress |-> f, time |-> 250] : f \in {0, 500, 1000}}

(***************************************************************************)
(* components/video-compressor.tsx: the component                          *)
(***************************************************************************)
\* String.prototype.toLowerCase on the extensions used here
toLowerCase(e) ==
  CASE e = "MP4" -> "mp4" [] e = "MOV" -> "mov" [] e = "MKV" -> "mkv" [] OTHER -> e

\* the type validation letting every file through (a faulty variant)
typeAcceptedAll(f) == TRUE

\* the type validation of handleFileSelect:
\* file.type.startsWith("video/") || file.name.match(/\.(mp4|mov|mkv|webm|avi)$/i)
typeAccepted(f) ==
  \/ f.mimeMajor = "video"
  \/ toLowerCase(f.ext) \in {"mp4", "mov", "mkv", "webm", "avi"}

\* the render function returns the workspace only past its two early returns
UIRendered == loadState.status \notin {"loading", "error"}

\* the mount effect (the automatic load) has run: React flushes it before it
\* dispatches a user event
Mounted == loadState.status # "idle"

\* React has committed the render of the current load state before it
\* dispatches a user event
Rendered == renderedStatus = loadState.status

UserCanAct == UIRendered /\ Mounted /\ Rendered

\* Math.round of the non-negative fraction n/d
Round(n, d) == (2 * n + d) \div (2 * d)

\* currentProgress without the status check (a faulty variant)
currentProgressNoStatusCheck ==
  IF compressionSessionId = NULL \/ progress = NULL THEN 0
  ELSE LET p == Val(progress)
       IN  IF p.progress > 0 /\ p.progress <= 1000
             THEN Min(99, Round(p.progress, 10))
           ELSE IF p.time > 0 /\ video # NULL /\ Val(video).meta.duration # 0
             THEN Min(99, Max(0, Round(100 * p.time, Val(video).meta.duration)))
           ELSE 0

\* currentProgress without the cap at 99 (a faulty variant)
currentProgressUncapped ==
  IF status # "compressing" \/ compressionSessionId = NULL \/ progress = NULL THEN 0
  ELSE LET p == Val(progress)
       IN  IF p.progress > 0 /\ p.progress <= 1000
             THEN Round(p.progress, 10)
           ELSE IF p.time > 0 /\ video # NULL /\ Val(video).meta.duration # 0
             THEN Max(0, Round(100 * p.time, Val(video).meta.duration))
           ELSE 0

\* currentProgress (the useMemo)
currentProgress ==
  IF status # "compressing" \/ compressionSessionId = NULL \/ progress = NULL THEN 0
  ELSE LET p == Val(progress)
       IN  IF p.progress > 0 /\ p.progress <= 1000
             THEN Min(99, Round(p.progress, 10))
           ELSE IF p.time > 0 /\ video # NULL /\ Val(video).meta.duration # 0
             THEN Min(99, Max(0, Round(100 * p.time, Val(video).meta.duration)))
           ELSE 0

\* handleFileSelect up to its await: the state reset, the type validation, and
\* the call of getVideoMetadata
\* lib/utils.ts, getVideoMetadata: the value the promise resolves with
metadataOf(f) == [duration |-> f.dd, width |-> f.width, height |-> f.height]

\* getVideoMetadata up to its return: the 10 s timer armed, both handlers
\* attached, the object URL of the file created and loading, the promise
\* pending.  Observations: log is the sequence of the element's events and
\* timer firings, calls the number of resolve and reject calls made, latest
\* whether no call was made after this one.
getVideoMetadata(f) ==
  [file |-> f, timeout |-> TRUE, onloadedmetadata |-> TRUE, onerror |-> TRUE,
   src |-> "object-url", state |-> "pending", outcome |-> NULL,
   log |-> <<>>, calls |-> 0, latest |-> TRUE]

\* cleanup leaving the two handlers attached (a faulty variant)
cleanupKeepsHandlers(p) ==
  [p EXCEPT !.timeout = FALSE, !.src = "revoked"]

\* getVideoMetadata's cleanup
cleanup(p) ==
  [p EXCEPT !.timeout = FALSE, !.onloadedmetadata = FALSE, !.onerror = FALSE,
            !.src = "revoked"]

\* resolve(value) or reject(error) on the promise of the call: only the first
\* call settles it
settle(p, state, outcome) ==
  IF p.state = "pending"
    THEN [p EXCEPT !.state = state, !.outcome = Some(outcome), !.calls = @ + 1]
    ELSE [p EXCEPT !.calls = @ + 1]

\* handleFileSelect up to its await, with at most maxPending probes pending
\* at the same time.  The call for the file selected last is marked latest
\* (an observation: the code keeps no such mark).
HandleFileSelectWithin(f, maxPending) ==
  /\ UserCanAct
  /\ status = "idle"
  /\ errorMsg' = IF typeAccepted(f) THEN "" ELSE "unsupported-format"
  /\ result' = NULL
  /\ previewMode' = "original"
  /\ IF ~typeAccepted(f)
       THEN status' = "error" /\ UNCHANGED probes
       ELSE /\ Len(probes) < maxPending
            /\ probes' = Append([k \in 1..Len(probes) |->
                                   [probes[k] EXCEPT !.latest = FALSE]],
                                getVideoMetadata(f))
            /\ UNCHANGED status
  /\ UNCHANGED <<hookVars, video, ratio, exportName, compressionSessionId,
                 startTimeRef, runs, progressOrigin, heur, objectUrls>>

HandleFileSelect(f) == HandleFileSelectWithin(f, MaxProbes)

RemoveAt(seq, i) == [j \in 1..(Len(seq) - 1) |-> IF j < i THEN seq[j] ELSE seq[j + 1]]

\* getVideoMetadata resolves: handleFileSelect continues after its await
ProbeResolves(i) ==
  /\ i \in 1..Len(probes)
  /\ probes[i].file.readable
  /\ LET f == probes[i].file
     IN  /\ video' = Some([file |-> f, meta |-> metadataOf(f)])
         /\ exportName' = f.base \o "-compressed.mp4"
  /\ status' = "ready"
  /\ probes' = RemoveAt(probes, i)
  /\ UNCHANGED <<hookVars, ratio, result, errorMsg, previewMode,
                 compressionSessionId, startTimeRef, runs, progressOrigin, heur, objectUrls>>

\* getVideoMetadata rejects (error event or the 10 s timer): the catch block
ProbeRejects(i) ==
  /\ i \in 1..Len(probes)
  /\ errorMsg' = "unreadable"
  /\ status' = "error"
  /\ probes' = RemoveAt(probes, i)
  /\ UNCHANGED <<hookVars, video, ratio, result, previewMode, exportName,
                 compressionSessionId, startTimeRef, runs, progressOrigin, heur, objectUrls>>

\* the slider and the preset buttons of the settings panel
SetRatio(p) ==
  /\ UserCanAct
  /\ status = "ready" /\ video # NULL
  /\ ratio' = p
  /\ UNCHANGED <<hookVars, status, video, result, errorMsg, previewMode, exportName,
                 compressionSessionId, startTimeRef, asyncVars, progressOrigin, heur, objectUrls>>

\* cancelCompression: its only statement is setStatus("ready")
CancelCompression ==
  /\ UserCanAct
  /\ status = "compressing" /\ video # NULL
  /\ status' = "ready"
  /\ UNCHANGED <<hookVars, video, ratio, result, errorMsg, previewMode, exportName,
                 compressionSessionId, startTimeRef, asyncVars, progressOrigin, heur, objectUrls>>

\* the guard of startCompression: if (!video || !ffmpeg || !isLoaded) return
canStart == video # NULL /\ ffmpeg # NULL /\ isLoaded

\* startCompression up to its first await: a new session id, progress cleared,
\* the start time recorded, the status set, and input.mp4 being written
StartCompression ==
  /\ UserCanAct
  /\ status = "ready" /\ video # NULL
  /\ canStart
  /\ Len(runs) < MaxRuns
  /\ LET sessionId == Len(runs) + 1
     IN  /\ compressionSessionId' = Some(sessionId)
         /\ startTimeRef' = sessionId
         /\ runs' = Append(runs, [session |-> sessionId, video |-> Val(video),
                                  ratio |-> ratio, pc |-> "write", failedAt |-> "",
                                  videoBitrateKbps |-> 0, finalBitrate |-> 0,
                                  scaleFilter |-> "", args |-> <<>>])
  /\ clearProgress
  /\ status' = "compressing"
  /\ UNCHANGED <<engineVars, video,
                 ratio, result, errorMsg, previewMode, exportName, probes, heur, objectUrls>>

\* the run going from writeFile straight to readFile, without ffmpeg.exec (a
\* faulty variant)
WriteResolvesSkipsExec(r) ==
  /\ r \in 1..Len(runs)
  /\ runs[r].pc = "write"
  /\ runs' = [runs EXCEPT ![r].pc = "read"]
  /\ UNCHANGED <<hookVars, compVars, probes, progressOrigin, heur, objectUrls>>

\* writeFile resolves: the run plans its parameters, builds the argument
\* vector and calls ffmpeg.exec
WriteResolves(r) ==
  /\ r \in 1..Len(runs)
  /\ runs[r].pc = "write"
  /\ LET v == runs[r].video
         vb == videoBitrateKbps(v.file.sizeK, v.meta.duration, runs[r].ratio)
         b == finalBitrate(v.file.sizeK, v.meta.duration, runs[r].ratio)
         f == scaleFilter(runs[r].ratio, v.meta.width, v.meta.height)
     IN  runs' = [runs EXCEPT ![r] = [@ EXCEPT !.pc = "exec",
                                                !.videoBitrateKbps = vb,
                                                !.finalBitrate = b,
                                                !.scaleFilter = f,
                                                !.args = buildArgs(b, f)]]
  /\ UNCHANGED <<hookVars, compVars, probes, progressOrigin, heur, objectUrls>>

\* the engine job of run r emits a progress event: the hook's listener stores it
OnProgress(r, ev) ==
  /\ r \in 1..Len(runs)
  /\ runs[r].pc = "exec"
  /\ progress' = Some(ev)
  /\ progressOrigin' = r
  /\ UNCHANGED <<engineVars,
                 compVars, asyncVars, heur, objectUrls>>

\* ffmpeg.exec resolves: the run calls ffmpeg.readFile
ExecResolves(r) ==
  /\ r \in 1..Len(runs)
  /\ runs[r].pc = "exec"
  /\ runs' = [runs EXCEPT ![r].pc = "read"]
  /\ UNCHANGED <<hookVars, compVars, probes, progressOrigin, heur, objectUrls>>

\* ffmpeg.readFile resolves: the success path to the end of the try block
\* (URL.createObjectURL(blob) gives the run's result its object URL)
ReadResolves(r) ==
  /\ r \in 1..Len(runs)
  /\ runs[r].pc = "read"
  /\ runs' = [runs EXCEPT ![r].pc = "resolved"]
  /\ result' = Some([blobUrl |-> r, outputName |-> "output.mp4",
                     timeCostSince |-> startTimeRef])
  /\ compressionSessionId' = NULL
  /\ clearProgress
  /\ status' = "success"
  /\ previewMode' = "compressed"
  /\ objectUrls' = objectUrls \cup {r}
  /\ UNCHANGED <<engineVars, video,
                 ratio, errorMsg, exportName, startTimeRef, probes, heur>>

\* fetchFile/writeFile, exec or readFile throws: the catch block
RunRejects(r) ==
  /\ r \in 1..Len(runs)
  /\ runs[r].pc \in {"write", "exec", "read"}
  /\ runs' = [runs EXCEPT ![r] = [@ EXCEPT !.pc = "rejected", !.failedAt = runs[r].pc]]
  /\ compressionSessionId' = NULL
  /\ clearProgress
  /\ errorMsg' = "compression-failed"
  /\ status' = "error"
  /\ UNCHANGED <<engineVars, video,
                 ratio, result, previewMode, exportName, startTimeRef, probes, heur, objectUrls>>

\* the X button of the file bar
DiscardFile ==
  /\ UserCanAct
  /\ status # "idle" /\ video # NULL
  /\ status # "compressing"
  /\ status' = "idle"
  /\ video' = NULL
  /\ UNCHANGED <<hookVars, ratio, result, errorMsg, previewMode, exportName,
                 compressionSessionId, startTimeRef, asyncVars, progressOrigin, heur, objectUrls>>

\* the Compress Again button of the result panel
CompressAgain ==
  /\ UserCanAct
  /\ status = "success" /\ result # NULL /\ video # NULL
  /\ compressionSessionId' = NULL
  /\ clearProgress
  /\ result' = NULL
  /\ status' = "ready"
  /\ UNCHANGED <<engineVars, video,
                 ratio, errorMsg, previewMode, exportName, startTimeRef, asyncVars,
                 heur, objectUrls>>

\* the preview toggle of the result panel
SetPreviewMode(m) ==
  /\ UserCanAct
  /\ status = "success" /\ result # NULL /\ video # NULL
  /\ previewMode' = m
  /\ UNCHANGED <<hookVars, status, video, ratio, result, errorMsg, exportName,
                 compressionSessionId, startTimeRef, asyncVars, progressOrigin, heur, objectUrls>>

\* the Select New File button of the error panel
SelectNewFile ==
  /\ UserCanAct
  /\ status = "error" /\ video # NULL
  /\ status' = "idle"
  /\ UNCHANGED <<hookVars, video, ratio, result, errorMsg, previewMode, exportName,
                 compressionSessionId, startTimeRef, asyncVars, progressOrigin, heur, objectUrls>>

(***************************************************************************)
(* The component after its first render, in any browser environment.       *)
(***************************************************************************)
Init ==
  /\ env \in [sab : BOOLEAN, coi : BOOLEAN]
  /\ loadState = [status |-> "idle"]
  /\ ffmpegRef = NULL
  /\ instances = 0
  /\ terminated = {}
  /\ loads = <<>>
  /\ renderedStatus = "idle"
  /\ progress = NULL
  /\ environmentCheck = NULL
  /\ status = "idle"
  /\ video = NULL
  /\ ratio = 70
  /\ result = NULL
  /\ errorMsg = ""
  /\ previewMode = "original"
  /\ exportName = ""
  /\ compressionSessionId = NULL
  /\ startTimeRef = 0
  /\ runs = <<>>
  /\ probes = <<>>
  /\ progressOrigin = 0
  /\ heur = NULL
  /\ objectUrls = {}

Next ==
  \/ AutoLoad
  \/ Render
  \/ \E i \in 1..MaxLoads : AttemptReports(i)
  \/ \E i \in 1..MaxLoads : AttemptSucceeds(i)
  \/ \E i \in 1..MaxLoads, m \in FailureMessages : AttemptFails(i, m)
  \/ \E i \in 1..MaxLoads, k \in 1..MaxAbandoned : AbandonedReports(i, k)
  \/ \E i \in 1..MaxLoads, k \in 1..MaxAbandoned : AbandonedSettles(i, k)
  \/ \E f \in Files : HandleFileSelect(f)
  \/ \E i \in 1..MaxProbes : ProbeResolves(i)
  \/ \E i \in 1..MaxProbes : ProbeRejects(i)
  \/ \E p \in RatioChoices : SetRatio(p)
  \/ StartCompression
  \/ CancelCompression
  \/ \E r \in 1..MaxRuns : WriteResolves(r)
  \/ \E r \in 1..MaxRuns, ev \in Events : OnProgress(r, ev)
  \/ \E r \in 1..MaxRuns : ExecResolves(r)
  \/ \E r \in 1..MaxRuns : ReadResolves(r)
  \/ \E r \in 1..MaxRuns : RunRejects(r)
  \/ DiscardFile
  \/ CompressAgain
  \/ \E m \in {"original", "compressed"} : SetPreviewMode(m)
  \/ SelectNewFile

Spec == Init /\ [][Next]_vars

(***************************************************************************)
(* PlanSpec: the planner, as startCompression applies it.  The component   *)
(* holds a probed video and a slider position drawn from a grid, the       *)
(* engine is ready, and the user starts one compression.                   *)
(***************************************************************************)
GridSizes == {37, 4001, 123457, 999983}
GridDurations == {10, 300, 301, 1200, 1201, 3000, 3001, 9000}
GridDims == {<<1280, 720>>, <<1282, 722>>, <<1920, 1080>>, <<1080, 1922>>,
             <<3840, 2160>>, <<2160, 2160>>}
GridFiles ==
  {[base |-> "clip", ext |-> "mp4", mimeMajor |-> "video", readable |-> TRUE,
    sizeK |-> s, dd |-> d, width |-> wh[1], height |-> wh[2]] :
     s \in GridSizes, d \in GridDurations, wh \in GridDims}

\* the state handleFileSelect leaves for file f once its probe has resolved
Probed(f) == Some([file |-> f,
                   meta |-> [duration |-> f.dd, width |-> f.width,
                             height |-> f.height]])

PlanInit ==
  /\ env = [sab |-> TRUE, coi |-> TRUE]
  /\ loadState = [status |-> "ready"]
  /\ ffmpegRef = Some(1)
  /\ instances = 1
  /\ terminated = {}
  /\ loads = <<[ffmpeg |-> 1, attempt |-> 0, stage |-> "", failures |-> <<>>,
                abandoned |-> <<>>, pc |-> "resolved"]>>
  /\ renderedStatus = "ready"
  /\ progress = NULL
  /\ environmentCheck = Some(checkFFmpegEnvironment)
  /\ status = "ready"
  /\ \/ \E f \in GridFiles : video = Probed(f) /\ ratio \in 1..MaxRatio
     \/ video = Probed(Clip) /\ ratio \in {10, 70}
  /\ result = NULL
  /\ errorMsg = ""
  /\ previewMode = "original"
  /\ exportName = "clip-compressed.mp4"
  /\ compressionSessionId = NULL
  /\ startTimeRef = 0
  /\ runs = <<>>
  /\ probes = <<>>
  /\ progressOrigin = 0
  /\ heur = NULL
  /\ objectUrls = {}

PlanNext ==
  \/ StartCompression
  \/ \E r \in 1..MaxRuns : WriteResolves(r)

PlanSpec == PlanInit /\ [][PlanNext]_vars

(***************************************************************************)
(* HeurSpec: isHighlyCompressed applied to arguments drawn from a grid     *)
(* that includes zero and negative durations and dimensions.               *)
(***************************************************************************)
HeurSizes == {1, 1555, 1556, 5000, 15552, 100000, 500000}
HeurDurations == {-10, 0, 10, 100, 1000, 3000}
HeurWidths == {-1280, 0, 640, 1280, 1920, 1080}
HeurHeights == {-720, 0, 360, 720, 1080, 1920}

\* the settings panel evaluates isHighlyCompressed while it renders
EvalHighlyCompressed(s, d, w, h) ==
  /\ heur' = Some([in |-> <<s, d, w, h>>, out |-> isHighlyCompressed(s, d, w, h)])
  /\ UNCHANGED <<hookVars, compVars, asyncVars, progressOrigin, objectUrls>>

HeurNext ==
  \E s \in HeurSizes, d \in HeurDurations, w \in HeurWidths, h \in HeurHeights :
    EvalHighlyCompressed(s, d, w, h)

HeurSpec == Init /\ [][HeurNext]_vars

(***************************************************************************)
(* Properties                                                              *)
(***************************************************************************)
\* the runs whose writeFile / exec / readFile phase is open
InFlight == {r \in 1..Len(runs) : runs[r].pc \in {"write", "exec", "read"}}
\* the runs that have planned their parameters and built their arguments
Planned == {r \in 1..Len(runs) : runs[r].args # <<>>}

\* C1: once a later session has started, a progress event emitted by the engine
\* job of an earlier session does not change the displayed progress.
C1_StaleEventIgnored ==
  [][\A r \in 1..MaxRuns, ev \in Events :
       (OnProgress(r, ev) /\ Len(runs) > r) => currentProgress' = currentProgress]_vars

\* C2: at most one startCompression invocation is in its writeFile / exec /
\* readFile phases at any time.
C2_OneRunInFlight == Cardinality(InFlight) <= 1

\* C3: with no active session (no session token, or the workflow not
\* compressing) the progress projection is 0, whatever event is retained.
C3_IdleProgressZero ==
  (compressionSessionId = NULL \/ status # "compressing") => currentProgress = 0

\* C3 witness: no session is active and an event from a run's job is retained
C3_Witness == status # "compressing" /\ progress # NULL /\ progressOrigin # 0

\* C4: the workflow never sits in succeeded or failed with a session token set
\* (every run end retires the token and clears the retained event).
C4_SettledWithoutToken ==
  status \in {"success", "error"} => compressionSessionId = NULL

\* the duration cap as the specification tabulates it (kbps; dd in tenths of a second)
ClaimedCap(dd) ==
  CASE dd <= 300 -> 30000
    [] dd > 300 /\ dd <= 1200 -> 20000
    [] dd > 1200 /\ dd <= 3000 -> 10000
    [] dd > 3000 -> 5000

\* C5: for ratio in 1..100, duration > 0 and size > 0 the final bitrate handed
\* to the encoder is at least 100 kbps and at most the cap of the duration's
\* bracket (30000 / 20000 / 10000 / 5000).
C5_BitrateWithinBounds ==
  \A r \in Planned :
    LET run == runs[r]
    IN  /\ run.finalBitrate >= 100
        /\ run.finalBitrate <= ClaimedCap(run.video.meta.duration)
        /\ run.args[5] = "-b:v"
        /\ run.args[6] = ToString(run.finalBitrate) \o "k"

\* C5 witness: a planned run of a 120 s - 300 s video whose computed bitrate
\* exceeds the cap of that bracket and is clamped to it
C5_Witness ==
  \E r \in Planned :
    /\ runs[r].video.meta.duration > 1200 /\ runs[r].video.meta.duration <= 3000
    /\ runs[r].videoBitrateKbps > 10000
    /\ runs[r].finalBitrate = 10000

\* C6: the buffer size argument is 2*b and the max-rate argument is
\* floor(1.2*b), which is at least b, for the final bitrate b.
C6_BufferAndMaxRate ==
  \A r \in Planned :
    LET run == runs[r]
        b == run.finalBitrate
    IN  /\ run.args[7] = "-bufsize"
        /\ run.args[8] = ToString(2 * b) \o "k"
        /\ run.args[9] = "-maxrate"
        /\ run.args[10] = ToString((12 * b) \div 10) \o "k"
        /\ (12 * b) \div 10 >= b

\* C6 witness: a planned run whose 1.2*b is not an integer
C6_Witness == \E r \in Planned : (12 * runs[r].finalBitrate) % 10 # 0

ClaimedDirective(r, width, height) ==
  LET longer == IF width >= height THEN width ELSE height
  IN  IF r < 40 /\ longer > 1280 THEN "cap-1280"
      ELSE IF r < 60 /\ longer > 1920 THEN "cap-1920"
      ELSE "none"

\* the directive a scaleFilter string stands for
DirectiveOf(filter) ==
  CASE filter = "" -> "none"
    [] filter = "scale='if(gt(iw,ih),1280,-2):if(gt(ih,iw),1280,-2)'" -> "cap-1280"
    [] filter = "scale='if(gt(iw,ih),1920,-2):if(gt(ih,iw),1920,-2)'" -> "cap-1920"
    [] OTHER -> "other"

\* C8: the directive is cap-1280 iff ratio < 40 and max(width,height) > 1280,
\* otherwise cap-1920 iff ratio < 60 and max(width,height) > 1920, otherwise
\* none; "-vf" with the scale argument is in the argument vector iff the
\* directive is not none; "output.mp4" is the last argument.
C8_DirectiveAndArgs ==
  \A r \in Planned :
    LET run == runs[r]
        d == ClaimedDirective(run.ratio, run.video.meta.width, run.video.meta.height)
        n == Len(run.args)
    IN  /\ DirectiveOf(run.scaleFilter) = d
        /\ (d # "none") <=> (\E i \in 1..n : run.args[i] = "-vf")
        /\ d # "none" => run.args[n - 2] = "-vf" /\ DirectiveOf(run.args[n - 1]) = d
        /\ run.args[n] = "output.mp4"

\* C8 witness: a planned run at ratio 40 of a video wider than 1920 (cap-1920,
\* not cap-1280)
C8_Witness ==
  \E r \in Planned :
    /\ runs[r].ratio = 40
    /\ runs[r].video.meta.width > 1920
    /\ DirectiveOf(runs[r].scaleFilter) = "cap-1920"

\* C9: isHighlyCompressed is false when duration, width or height is <= 0, and
\* otherwise true iff (size*8/duration)/(width*height*30) < 0.06, i.e. iff
\* 4000*sizeK < 9*dd*(width*height/100); evaluating it changes nothing of the
\* workflow.
C9_Heuristic ==
  /\ [](heur # NULL =>
          LET sizeK == Val(heur).in[1]
              dd == Val(heur).in[2]
              width == Val(heur).in[3]
              height == Val(heur).in[4]
          IN  Val(heur).out =
                (/\ dd > 0 /\ width > 0 /\ height > 0
                 /\ 4000 * sizeK < 9 * dd * ((width * height) \div 100)))
  /\ [][compVars' = compVars /\ asyncVars' = asyncVars /\ hookVars' = hookVars]_vars

\* C9 witness: an evaluation with a non-positive duration and positive
\* dimensions, answered false
C9_Witness ==
  /\ heur # NULL
  /\ Val(heur).in[2] <= 0 /\ Val(heur).in[3] > 0 /\ Val(heur).in[4] > 0
  /\ Val(heur).out = FALSE

\* C10: a session is started only while the engine lifecycle is ready; once
\* every acquisition attempt of a load has failed the lifecycle is in error,
\* the workflow is idle, no session token was minted and no run called the
\* engine.
C10_NoSessionUnlessReady ==
  /\ [](\A i \in 1..Len(loads) :
          loads[i].pc = "rejected"
            => /\ loadState.status = "error"
               /\ status = "idle" /\ compressionSessionId = NULL /\ runs = <<>>)
  /\ [][(runs' # runs \/ compressionSessionId' # compressionSessionId)
          => loadState.status = "ready" /\ loadState'.status = "ready"]_vars

\* C10, the part about sessions alone: a run starts, and the session token
\* changes, only in steps taken while the lifecycle is ready or set back to
\* loading by an attempt that was given up on; with the lifecycle in error, or
\* a load rejected, the workflow is idle with no token and no run
C10_SessionsNeedReadyEngine ==
  /\ [](((\E i \in 1..Len(loads) : loads[i].pc = "rejected")
            \/ loadState.status = "error")
          => status = "idle" /\ compressionSessionId = NULL /\ runs = <<>>)
  /\ [][Len(runs') > Len(runs) => loadState.status = "ready"]_vars

\* C11: the cancel action terminates and discards the engine instance, and no
\* job can be submitted (startCompression passes its guard) right after it, a
\* fresh load being needed first.
C11_CancelAbandonsEngine ==
  [][CancelCompression => (ffmpegRef' = NULL /\ ~canStart')]_vars

\* C12: after any number of compress / discard cycles at most one result
\* object URL is un-revoked, and the un-revoked ones belong to the result held.
C12_ResultHandlesRevoked ==
  /\ Cardinality(objectUrls) <= 1
  /\ \A u \in objectUrls : result # NULL /\ Val(result).blobUrl = u

(***************************************************************************)
(* HookSpec: the useFFmpeg hook under a consumer that calls load() and     *)
(* reset() at any time, through the callbacks of the last committed        *)
(* render, next to the auto-load effect.                                   *)
(***************************************************************************)
HookNext ==
  \/ AutoLoad
  \/ Load
  \/ Reset
  \/ Render
  \/ \E i \in 1..MaxLoads : AttemptReports(i)
  \/ \E i \in 1..MaxLoads : AttemptSucceeds(i)
  \/ \E i \in 1..MaxLoads, m \in FailureMessages : AttemptFails(i, m)
  \/ \E i \in 1..MaxLoads, k \in 1..MaxAbandoned : AbandonedReports(i, k)
  \/ \E i \in 1..MaxLoads, k \in 1..MaxAbandoned : AbandonedSettles(i, k)

HookSpec == Init /\ [][HookNext]_vars

\* the parts of a message, as a set
Parts(message) == {message[k] : k \in 1..Len(message)}

\* C13: when every acquisition attempt of a load() invocation has failed, the
\* error the lifecycle reports names the failure of each attempt, the primary's
\* and the fallback's.
C13_AggregatedError ==
  \A i \in 1..Len(loads) :
    (loads[i].pc = "rejected" /\ loadState.status = "error")
      => \A k \in 1..Len(loads[i].failures) :
           loads[i].failures[k] \in Parts(loadState.error)

\* the message checkFFmpegEnvironment gives for the capability that is missing
EnvironmentMessage ==
  IF ~env.coi THEN "no-cross-origin-isolation" ELSE "no-shared-array-buffer"

\* C14: without SharedArrayBuffer support or without cross-origin isolation
\* no engine instance is ever created and loadFFmpeg is never called, the
\* lifecycle is idle or in error, in error it carries the message of the
\* missing capability, and every load() call leaves it in error.
C14_UnsupportedEnvironment ==
  /\ [](~(env.sab /\ env.coi) =>
          /\ ffmpegRef = NULL /\ instances = 0 /\ loads = <<>>
          /\ loadState.status \in {"idle", "error"}
          /\ loadState.status = "error" =>
               loadState.error = <<EnvironmentMessage>>)
  /\ [][(Load /\ ~(env.sab /\ env.coi)) => loadState'.status = "error"]_vars

\* C14 witness: SharedArrayBuffer is missing from a cross-origin isolated page
\* and load() has reported the error
C14_Witness ==
  /\ ~env.sab /\ env.coi
  /\ loadState = [status |-> "error", error |-> <<"no-shared-array-buffer">>]
  /\ environmentCheck # NULL

\* the load() invocations whose loadFFmpeg call has not settled
PendingLoads == {i \in 1..Len(loads) : loads[i].pc = "pending"}

\* C15: a load() call made while the lifecycle is loading or ready starts no
\* acquisition and leaves the load state alone, and no engine instance has two
\* acquisitions running on it.
C15_LoadIdempotent ==
  /\ [](\A i, j \in PendingLoads : loads[i].ffmpeg = loads[j].ffmpeg => i = j)
  /\ [][(Load /\ loadState.status \in {"loading", "ready"})
          => (loads' = loads /\ loadState' = loadState)]_vars

\* C16: reset leaves the lifecycle idle with no engine handle, the handle held
\* is never a terminated instance, and the lifecycle reports ready only for the
\* instance held, once a load() of that instance has completed.
C16_TerminateThenFreshLoad ==
  /\ [](ffmpegRef # NULL => Val(ffmpegRef) \notin terminated)
  /\ [](isLoaded =>
          (/\ ffmpegRef # NULL
           /\ \E i \in 1..Len(loads) :
                loads[i].pc = "resolved" /\ loads[i].ffmpeg = Val(ffmpegRef)))
  /\ [][Reset => (loadState'.status = "idle" /\ ffmpegRef' = NULL)]_vars

\* the files the specification accepts: a video MIME type, or a name ending,
\* in any letter case, in one of the five extensions
ClaimedAccepted(f) ==
  \/ f.mimeMajor = "video"
  \/ \E e \in {"mp4", "mov", "mkv", "webm", "avi"} : toLowerCase(f.ext) = e

\* C17: only accepted files are probed or held; from idle or failed the
\* workflow becomes configuring only by a probe of an accepted file resolving,
\* which makes that file the held asset; a file failing the type check leads to
\* failed with no probe, no run and no change of the engine or the held asset;
\* a rejected probe leads to failed and leaves the held asset as it was.
C17_FileSelection ==
  /\ [](/\ \A i \in 1..Len(probes) : ClaimedAccepted(probes[i].file)
        /\ video # NULL => ClaimedAccepted(Val(video).file))
  /\ [][(status \in {"idle", "error"} /\ status' = "ready")
          => \E i \in 1..Len(probes) :
               /\ ProbeResolves(i)
               /\ ClaimedAccepted(probes[i].file)
               /\ video' # NULL /\ Val(video').file = probes[i].file]_vars
  /\ [][\A f \in Files :
          (HandleFileSelect(f) /\ ~ClaimedAccepted(f))
            => /\ status' = "error"
               /\ UNCHANGED <<probes, runs, video, hookVars>>]_vars
  /\ [][\A i \in 1..MaxProbes :
          ProbeRejects(i) => (status' = "error" /\ video' = video)]_vars

\* C17 witness: the file accepted only by its upper-case extension is the held
\* asset of the configuring workflow
C17_Witness ==
  /\ status = "ready"
  /\ video # NULL
  /\ Val(video).file.mimeMajor # "video"
  /\ Val(video).file.ext = "MKV"

\* the actions the rendered UI offers to the user
UserNext ==
  \/ \E f \in Files : HandleFileSelect(f)
  \/ \E p \in RatioChoices : SetRatio(p)
  \/ StartCompression
  \/ CancelCompression
  \/ DiscardFile
  \/ CompressAgain
  \/ \E m \in {"original", "compressed"} : SetPreviewMode(m)
  \/ SelectNewFile

\* C18: in succeeded and in failed a user action leads to configuring, and in
\* configuring, succeeded and failed a user action leads to idle with the
\* source asset discarded.
C18_RetryAndDiscardEdges ==
  /\ status \in {"success", "error"} => ENABLED (UserNext /\ status' = "ready")
  /\ status \in {"ready", "success", "error"}
       => ENABLED (UserNext /\ status' = "idle" /\ video' = NULL)

\* C19: an asset whose probe reported a non-positive duration or dimension
\* never becomes the held asset of the configuring workflow, and no run plans
\* its parameters from such an asset.
C19_PlannerPreconditions ==
  LET positive(meta) == meta.duration > 0 /\ meta.width > 0 /\ meta.height > 0
  IN  /\ (status = "ready" /\ video # NULL) => positive(Val(video).meta)
      /\ \A r \in 1..Len(runs) : positive(runs[r].video.meta)

(***************************************************************************)
(* ProgSpec: the progress projection.  A run of a video whose duration is  *)
(* drawn from a grid is in its exec phase, and the engine job emits events *)
(* whose fraction and processed time are drawn from grids that include     *)
(* negative values, 0 and fractions above 1.  On every grid point the      *)
(* double evaluation of the source gives the same result as the exact one. *)
(***************************************************************************)
ProgFractions == {-500, 0, 1, 4, 5, 15, 500, 985, 994, 995, 999, 1000, 1001, 2000}
ProgTimes == {-250, 0, 1, 3, 250, 999, 1000, 5000}
ProgDurations == {10, 300, 1000, 3001}
ProgEvents == {[progress |-> f, time |-> t] : f \in ProgFractions, t \in ProgTimes}

ProgInit ==
  /\ env = [sab |-> TRUE, coi |-> TRUE]
  /\ loadState = [status |-> "ready"]
  /\ ffmpegRef = Some(1)
  /\ instances = 1
  /\ terminated = {}
  /\ loads = <<[ffmpeg |-> 1, attempt |-> 0, stage |-> "", failures |-> <<>>,
                abandoned |-> <<>>, pc |-> "resolved"]>>
  /\ renderedStatus = "ready"
  /\ progress = NULL
  /\ environmentCheck = Some(checkFFmpegEnvironment)
  /\ status = "compressing"
  /\ \E d \in ProgDurations : video = Probed([Clip EXCEPT !.dd = d])
  /\ ratio = 70
  /\ result = NULL
  /\ errorMsg = ""
  /\ previewMode = "original"
  /\ exportName = "clip-compressed.mp4"
  /\ compressionSessionId = Some(1)
  /\ startTimeRef = 1
  /\ LET v == Val(video)
         b == finalBitrate(v.file.sizeK, v.meta.duration, ratio)
         f == scaleFilter(ratio, v.meta.width, v.meta.height)
     IN  runs = <<[session |-> 1, video |-> v, ratio |-> ratio, pc |-> "exec",
                   failedAt |-> "",
                   videoBitrateKbps |->
                     videoBitrateKbps(v.file.sizeK, v.meta.duration, ratio),
                   finalBitrate |-> b, scaleFilter |-> f,
                   args |-> buildArgs(b, f)]>>
  /\ probes = <<>>
  /\ progressOrigin = 0
  /\ heur = NULL
  /\ objectUrls = {}

ProgNext == \E ev \in ProgEvents : OnProgress(1, ev)

ProgSpec == ProgInit /\ [][ProgNext]_vars

\* C20: while a session is running the displayed progress is an integer in
\* 0..99: min(99, round(fraction * 100)) for a fraction in (0, 1], and
\* otherwise round(time / duration * 100) clamped to 0..99.
C20_ProgressRange ==
  (status = "compressing" /\ progress # NULL /\ video # NULL) =>
    LET f == Val(progress).progress
        t == Val(progress).time
        d == Val(video).meta.duration
        rounded == IF f > 0 /\ f <= 1000 THEN (2 * f + 10) \div 20
                   ELSE (200 * t + d) \div (2 * d)
        clamped == IF rounded < 0 THEN 0 ELSE IF rounded > 99 THEN 99 ELSE rounded
    IN  /\ currentProgress \in 0..99
        /\ currentProgress = clamped

\* C20 witness: the job has reported the fraction 1 and 99 is displayed
C20_Witness ==
  /\ status = "compressing"
  /\ progress # NULL /\ Val(progress).progress = 1000
  /\ currentProgress = 99


(***************************************************************************)
(* LoaderSpec: loadFFmpeg called once on a new instance, in any browser    *)
(* environment (the function is exported by lib/ffmpeg and tests the       *)
(* capabilities itself), by a caller that does what load() does around the *)
(* call: loading before it, ready after its return, error after its throw. *)
(***************************************************************************)
LoadFFmpeg ==
  /\ loads = <<>>
  /\ loadState' = [status |-> "loading"]
  /\ ffmpegRef' = initFFmpegInstance
  /\ instances' = IF ffmpegRef # NULL THEN instances ELSE instances + 1
  /\ loads' = <<[ffmpeg |-> Val(initFFmpegInstance), attempt |-> firstAttempt,
                 stage |-> "fetch", failures |-> <<>>, abandoned |-> <<>>,
                 pc |-> "pending"]>>
  /\ UNCHANGED <<env, terminated, renderedStatus, environmentCheck, progress,
                 compVars, asyncVars, progressOrigin, heur, objectUrls>>

LoaderNext ==
  \/ LoadFFmpeg
  \/ \E i \in 1..MaxLoads : AttemptReports(i)
  \/ \E i \in 1..MaxLoads : AttemptSucceeds(i)
  \/ \E i \in 1..MaxLoads, m \in FailureMessages : AttemptFails(i, m)
  \/ \E i \in 1..MaxLoads, k \in 1..MaxAbandoned : AbandonedReports(i, k)
  \/ \E i \in 1..MaxLoads, k \in 1..MaxAbandoned : AbandonedSettles(i, k)

LoaderSpec == Init /\ [][LoaderNext]_vars

\* the sources the claim lets loadFFmpeg try in an environment, in order
ClaimedSources(e) ==
  IF e.sab /\ e.coi
    THEN <<"mt-jsdelivr", "mt-unpkg", "st-jsdelivr", "st-unpkg">>
    ELSE <<"st-jsdelivr", "st-unpkg">>

\* C21: loadFFmpeg tries the sources in the fixed order (the multi-thread ones
\* only with shared memory and cross-origin isolation): the source in progress
\* is the one after as many sources as have failed, a next attempt is made
\* only on a failure or timeout of the one in progress, a success ends the
\* call with no later attempt, and the call fails only when every source it
\* tries has failed.
C21_AcquisitionOrder ==
  /\ [](\A i \in 1..Len(loads) :
          /\ loads[i].pc = "pending"
               => /\ Len(loads[i].failures) < Len(ClaimedSources(env))
                  /\ LoadSources[loads[i].attempt]
                       = ClaimedSources(env)[Len(loads[i].failures) + 1]
          /\ loads[i].pc = "rejected"
               => Len(loads[i].failures) = Len(ClaimedSources(env)))
  /\ [][\A i \in 1..Len(loads) :
          /\ i <= Len(loads')
          /\ loads[i].pc = "pending"
               => \/ /\ loads'[i].pc = "pending"
                     /\ loads'[i].attempt = loads[i].attempt
                     /\ loads'[i].failures = loads[i].failures
                  \/ /\ loads'[i].pc = "pending"
                     /\ loads'[i].attempt = loads[i].attempt + 1
                     /\ \E m \in FailureMessages :
                          loads'[i].failures = Append(loads[i].failures, m)
                  \/ /\ loads'[i].pc = "rejected"
                     /\ \E m \in FailureMessages :
                          loads'[i].failures = Append(loads[i].failures, m)
                  \/ /\ loads'[i].pc = "resolved"
                     /\ loadState'.status = "ready"
          /\ loads[i].pc # "pending"
               => /\ loads'[i].pc = loads[i].pc
                  /\ loads'[i].attempt = loads[i].attempt
                  /\ loads'[i].failures = loads[i].failures]_vars

\* C21 witness: without cross-origin isolation or shared memory the call has
\* failed after its two single-thread attempts, the first one by timeout
C21_Witness ==
  /\ ~(env.sab /\ env.coi)
  /\ loads # <<>>
  /\ loads[1].pc = "rejected"
  /\ loads[1].failures = <<TimeoutMessage, "fetch-failed">>

\* the ffmpeg.load calls in progress on the instance of load() invocation i
LoadCallsInProgress(i) ==
  (IF loads[i].pc = "pending" /\ loads[i].stage = "init" THEN 1 ELSE 0)
    + Cardinality({k \in 1..Len(loads[i].abandoned) : loads[i].abandoned[k] = "init"})

\* C30: during loadFFmpeg at most one load call is in progress on the engine
\* instance, a new attempt starts only when the previous one has finished, and
\* an attempt given up on by the timeout does not change the outcome later.
C30_OneLoadAtATime ==
  /\ [](\A i \in 1..Len(loads) :
          /\ LoadCallsInProgress(i) <= 1
          /\ loads[i].pc = "pending" => loads[i].abandoned = <<>>)
  /\ [][\A i \in 1..Len(loads) :
          loads[i].pc \in {"resolved", "rejected"} => loadState' = loadState]_vars

\* C30, the load calls alone: never two ffmpeg.load calls in progress on one
\* instance
C30_SingleLoadCall ==
  \A i \in 1..Len(loads) : LoadCallsInProgress(i) <= 1


\* the engine calls of one run, in the order the claim gives them; a run that
\* has not started is at "none"
ClaimedRunSteps ==
  {<<"none", "write">>, <<"write", "exec">>, <<"exec", "read">>,
   <<"read", "resolved">>,
   <<"write", "rejected">>, <<"exec", "rejected">>, <<"read", "rejected">>}

\* C22: within one run the engine operations come in the order writeFile,
\* exec, readFile, result: each is issued by the completion of the one before,
\* a result is set only by the return of that run's readFile, and a step that
\* throws ends the run with no later step and no result.
C22_EngineOperationOrder ==
  [][/\ \A r \in 1..Len(runs') :
          LET old == IF r <= Len(runs) THEN runs[r].pc ELSE "none"
              new == runs'[r].pc
          IN  /\ new = old \/ <<old, new>> \in ClaimedRunSteps
              /\ new = "rejected" /\ old # "rejected" => result' = result
     /\ (result' # NULL /\ result' # result)
          => \E r \in 1..Len(runs) :
               /\ runs[r].pc = "read" /\ runs'[r].pc = "resolved"
               /\ Val(result').blobUrl = r]_vars

\* C22 witness: one run has gone through all four steps and set its result,
\* another one has ended at a throw of exec
C22_Witness ==
  /\ \E r \in 1..Len(runs) :
       runs[r].pc = "resolved" /\ result # NULL /\ Val(result).blobUrl = r
  /\ \E r \in 1..Len(runs) : runs[r].pc = "rejected" /\ runs[r].failedAt = "exec"


\* C23: the workflow enters succeeded only from running, and a result is set
\* only then: the step is the completion of the run whose session token is
\* the current one.
C23_SucceededOnlyFromRunning ==
  [][((status' = "success" /\ status # "success")
        \/ (result' # NULL /\ result' # result))
       => /\ status = "compressing"
          /\ \E r \in 1..Len(runs) :
               /\ runs[r].pc = "read" /\ runs'[r].pc = "resolved"
               /\ compressionSessionId = Some(runs[r].session)]_vars


(***************************************************************************)
(* ProbeSpec: getVideoMetadata calls and what the browser does with their  *)
(* video elements afterwards.  The elements are kept after their promise   *)
(* has settled, and the browser goes on dispatching events on them, in any *)
(* order, up to MaxEvents per element.  ProbeLiveSpec adds that an armed   *)
(* timer fires (the event loop runs the callback of a timer that was not   *)
(* cleared).                                                               *)
(***************************************************************************)
\* a file with a video MIME type that the browser cannot decode
Corrupt == [base |-> "corrupt", ext |-> "mp4", mimeMajor |-> "video",
            readable |-> FALSE, sizeK |-> 700, dd |-> 0, width |-> 0, height |-> 0]
ProbeFiles == {Clip, Voice, Corrupt}

GetVideoMetadata(f) ==
  /\ Len(probes) < MaxElements
  /\ probes' = Append([k \in 1..Len(probes) |-> [probes[k] EXCEPT !.latest = FALSE]],
                      getVideoMetadata(f))
  /\ UNCHANGED <<hookVars, compVars, runs, progressOrigin, heur, objectUrls>>

\* the browser dispatches loadedmetadata on element i: the handler, if still
\* attached, runs cleanup and resolves
LoadedMetadata(i) ==
  /\ i \in 1..Len(probes)
  /\ probes[i].file.readable
  /\ Len(probes[i].log) < MaxEvents
  /\ LET p == [probes[i] EXCEPT !.log = Append(@, "loadedmetadata")]
     IN  probes' = [probes EXCEPT ![i] =
                      IF p.onloadedmetadata
                        THEN settle(cleanup(p), "resolved", metadataOf(p.file))
                        ELSE p]
  /\ UNCHANGED <<hookVars, compVars, runs, progressOrigin, heur, objectUrls>>

\* the browser dispatches error on element i: the handler, if still attached,
\* runs cleanup and rejects
ErrorEvent(i) ==
  /\ i \in 1..Len(probes)
  /\ Len(probes[i].log) < MaxEvents
  /\ LET p == [probes[i] EXCEPT !.log = Append(@, "error")]
     IN  probes' = [probes EXCEPT ![i] =
                      IF p.onerror
                        THEN settle(cleanup(p), "rejected", "unable-to-parse")
                        ELSE p]
  /\ UNCHANGED <<hookVars, compVars, runs, progressOrigin, heur, objectUrls>>

\* the 10 s timer of element i, not cleared, fires: cleanup and reject
TimeoutFires(i) ==
  /\ i \in 1..Len(probes)
  /\ probes[i].timeout
  /\ LET p == [probes[i] EXCEPT !.log = Append(@, "timeout")]
     IN  probes' = [probes EXCEPT ![i] =
                      settle(cleanup(p), "rejected", "metadata-timeout")]
  /\ UNCHANGED <<hookVars, compVars, runs, progressOrigin, heur, objectUrls>>

ProbeNext ==
  \/ \E f \in ProbeFiles : GetVideoMetadata(f)
  \/ \E i \in 1..MaxElements : LoadedMetadata(i)
  \/ \E i \in 1..MaxElements : ErrorEvent(i)
  \/ \E i \in 1..MaxElements : TimeoutFires(i)

\* the component after the engine has loaded in a supported browser and the
\* ready state has been rendered: the workflow idle, nothing selected
ReadyInit ==
  /\ env = [sab |-> TRUE, coi |-> TRUE]
  /\ loadState = [status |-> "ready"]
  /\ ffmpegRef = Some(1)
  /\ instances = 1
  /\ terminated = {}
  /\ loads = <<[ffmpeg |-> 1, attempt |-> 0, stage |-> "", failures |-> <<>>,
                abandoned |-> <<>>, pc |-> "resolved"]>>
  /\ renderedStatus = "ready"
  /\ progress = NULL
  /\ environmentCheck = Some(checkFFmpegEnvironment)
  /\ status = "idle"
  /\ video = NULL
  /\ ratio = 70
  /\ result = NULL
  /\ errorMsg = ""
  /\ previewMode = "original"
  /\ exportName = ""
  /\ compressionSessionId = NULL
  /\ startTimeRef = 0
  /\ runs = <<>>
  /\ probes = <<>>
  /\ progressOrigin = 0
  /\ heur = NULL
  /\ objectUrls = {}

ProbeSpec == ReadyInit /\ [][ProbeNext]_vars

ProbeLiveSpec == ProbeSpec /\ \A i \in 1..MaxElements : WF_vars(TimeoutFires(i))

\* what the claim settles a call with, by the first thing that happened
ClaimedSettlement(first, f) ==
  IF first = "loadedmetadata"
    THEN [state |-> "resolved",
          outcome |-> Some([duration |-> f.dd, width |-> f.width, height |-> f.height])]
    ELSE IF first = "error"
      THEN [state |-> "rejected", outcome |-> Some("unable-to-parse")]
      ELSE [state |-> "rejected", outcome |-> Some("metadata-timeout")]

\* C24: getVideoMetadata always settles, and exactly once: by what came first
\* of the loadedmetadata event (resolved with duration, width, height), the
\* error event and the 10 s timer (rejected); once settled the timer is
\* cleared, both handlers are detached and the object URL is revoked, and
\* whatever the element does later changes nothing.
C24_SettlesOnce ==
  /\ [](\A i \in 1..Len(probes) :
          LET p == probes[i]
          IN  /\ p.calls <= 1
              /\ p.state = "pending" <=> p.log = <<>>
              /\ p.state = "pending"
                   => p.timeout /\ p.onloadedmetadata /\ p.onerror /\ p.calls = 0
              /\ p.state # "pending"
                   => /\ p.calls = 1
                      /\ ~p.timeout /\ ~p.onloadedmetadata /\ ~p.onerror
                      /\ p.src = "revoked"
                      /\ p.state = ClaimedSettlement(p.log[1], p.file).state
                      /\ p.outcome = ClaimedSettlement(p.log[1], p.file).outcome)
  /\ \A i \in 1..MaxElements :
       (Len(probes) >= i) ~> (Len(probes) >= i /\ probes[i].state # "pending")

\* C24 witness: a call resolved by loadedmetadata whose element dispatched an
\* error event afterwards, and a call rejected by its timer
C24_Witness ==
  /\ \E i \in 1..Len(probes) :
       probes[i].state = "resolved" /\ probes[i].log = <<"loadedmetadata", "error">>
  /\ \E i \in 1..Len(probes) :
       probes[i].state = "rejected" /\ probes[i].log[1] = "timeout"


\* C25: with a cap directive selected, the scale filter makes the longer edge
\* of the output the cap value and derives the other edge (even, aspect kept
\* to within the rounding), for every input above the cap, square ones
\* included.
C25_LongerEdgeCapped ==
  \A r \in Planned :
    LET run == runs[r]
        iw == run.video.meta.width
        ih == run.video.meta.height
        out == scaleOutput(run.scaleFilter, iw, ih)
        cap == IF DirectiveOf(run.scaleFilter) = "cap-1280" THEN 1280 ELSE 1920
    IN  DirectiveOf(run.scaleFilter) \in {"cap-1280", "cap-1920"}
          => /\ Max(out.w, out.h) = cap
             /\ out.w % 2 = 0 /\ out.h % 2 = 0
             /\ out.w * ih - out.h * iw <= 2 * Max(iw, ih)
             /\ out.h * iw - out.w * ih <= 2 * Max(iw, ih)

\* C25 for inputs whose edges differ: the same statement, which the filter
\* does meet
C25_NonSquareCapped ==
  \A r \in Planned :
    LET run == runs[r]
        iw == run.video.meta.width
        ih == run.video.meta.height
        out == scaleOutput(run.scaleFilter, iw, ih)
        cap == IF DirectiveOf(run.scaleFilter) = "cap-1280" THEN 1280 ELSE 1920
    IN  (DirectiveOf(run.scaleFilter) \in {"cap-1280", "cap-1920"} /\ iw # ih)
          => /\ Max(out.w, out.h) = cap
             /\ out.w % 2 = 0 /\ out.h % 2 = 0
             /\ out.w * ih - out.h * iw <= 2 * Max(iw, ih)
             /\ out.h * iw - out.w * ih <= 2 * Max(iw, ih)


\* the error panel, inside the workspace block, which is rendered only with a
\* video held
errorPanelShown == UIRendered /\ status # "idle" /\ video # NULL /\ status = "error"

\* C26: with the engine ready (and that state rendered) the UI offers at
\* least one user action in every reachable state, and in failed it shows the
\* error message, also when the first file ever selected was rejected.
C26_NoDeadEnd ==
  (isLoaded /\ Rendered)
    => /\ ENABLED UserNext
       /\ status = "error" => errorPanelShown


\* C27: whenever the workflow is configuring, running or succeeded a source
\* asset is held, and whenever it is succeeded a result is held.
C27_AssetHeld ==
  /\ status \in {"ready", "compressing", "success"} => video # NULL
  /\ status = "success" => result # NULL

\* C29: the completion or failure of an earlier run does not clear the session
\* token, the progress, the status or the start timestamp of a later run that
\* is in flight and whose token is the current one.
C29_TokenOfLaterRunKept ==
  [][\A r \in 1..Len(runs) :
       (/\ runs[r].pc \in {"write", "exec", "read"}
        /\ runs'[r].pc \in {"resolved", "rejected"}
        /\ \E q \in (r + 1)..Len(runs) :
             /\ runs[q].pc \in {"write", "exec", "read"}
             /\ compressionSessionId = Some(runs[q].session))
       => /\ compressionSessionId' = compressionSessionId
          /\ progress' = progress
          /\ status' = status
          /\ startTimeRef' = startTimeRef]_vars


(***************************************************************************)
(* SelectSpec: file selection with the engine ready, where a second file   *)
(* can be selected while the probe of the first one is pending (the file   *)
(* input stays rendered as long as the status is idle).                    *)
(***************************************************************************)
SelectNext ==
  \/ \E f \in Files : HandleFileSelectWithin(f, MaxSelections)
  \/ \E i \in 1..MaxSelections : ProbeResolves(i)
  \/ \E i \in 1..MaxSelections : ProbeRejects(i)
  \/ DiscardFile
  \/ SelectNewFile

SelectSpec == ReadyInit /\ [][SelectNext]_vars

\* C28: when two files were selected before the first probe settled, the held
\* asset and the default export name end up those of the file selected last:
\* the probe of a file selected earlier, settling when the probe of the last
\* one has settled already, changes neither of them.
C28_LastSelectionWins ==
  [][\A i \in 1..Len(probes) :
       (/\ ~probes[i].latest
        /\ \A k \in 1..Len(probes) : ~probes[k].latest
        /\ Len(probes') < Len(probes))
       => video' = video /\ exportName' = exportName]_vars

=============================================================================
